---- MODULE Spec2Model ----
(***************************************************************************)
(* Model of src/hls.ts: the Hls class that composes the player's           *)
(* components, forwards the event emitter, and exposes the quality-level   *)
(* getters and setters.                                                    *)
(*                                                                         *)
(* The collaborators (level, stream, abr and cap-level controllers, the    *)
(* event emitter's listeners) are represented by the fields Hls reads and  *)
(* writes on them and by an ordered trace of the calls, writes and event   *)
(* deliveries each public operation makes.                                 *)
(***************************************************************************)
EXTENDS Integers, Sequences, FiniteSets, TLC

\* ------------------------------------------------------------- bounds
MaxMedia == 2        \* distinct media elements 1..MaxMedia
MaxRegs == 2         \* listener registrations made in one behaviour
MaxLevels == 2       \* longest level list
MaxBitrate == 2      \* level maxBitrate values 1..MaxBitrate
MaxLevel == 2        \* level indices handed to setters: -1..MaxLevel

\* Nested calls the call stack holds before the engine raises RangeError: one
\* more than the listeners that call back once each can ever nest.
MaxDepth == MaxRegs + 1

\* ------------------------------------------------------------- values
Null == 0            \* null (_media, url)
NoArg == 0           \* an event or call without payload
Auto == -1           \* -1: automatic level / uncapped / earliest position
RelativeUrl == 1
AbsoluteUrl == 2

Events == {"MEDIA_ATTACHING", "MEDIA_DETACHING", "MANIFEST_LOADING", "DESTROYING"}

MediaRefs == 1..MaxMedia
LevelArgs == Auto..MaxLevel
Bitrates == 1..MaxBitrate
Floors == 0..MaxBitrate
StartPositions == {Auto, 0}

OptionalControllers ==
  <<"audioTrackController", "audioStreamController", "subtitleTrackController",
    "subtitleStreamController", "timelineController", "emeController">>

OptionalNames == {OptionalControllers[i] : i \in 1..Len(OptionalControllers)}

VARIABLES
  config,               \* this.config
  coreComponents,       \* this.coreComponents
  networkControllers,   \* this.networkControllers
  emitter,              \* this._emitter: event -> listener ids in registration order
  nextId,               \* next listener registration id
  media,                \* this._media
  url,                  \* this.url
  autoLevelCapping,     \* this._autoLevelCapping
  levels,               \* levelController.levels (maxBitrate of each level)
  manualLevel,          \* levelController.manualLevel
  nextLoadLevel,        \* levelController.nextLoadLevel
  startLevel,           \* levelController.startLevel
  abrNextAutoLevel,     \* abrController.nextAutoLevel
  last,                 \* the operation that ran last, with its trace
  prev,                 \* the operation before a lifecycle operation, with its events
  clearedBelow,         \* listener ids below this were removed by destroy()
  stack,                \* the destroy() calls in progress, innermost last
  handlers              \* listener id -> what the callback does, if not just observe

vars == <<config, coreComponents, networkControllers, emitter, nextId, media, url,
          autoLevelCapping, levels, manualLevel, nextLoadLevel, startLevel,
          abrNextAutoLevel, last, prev, clearedBelow, stack, handlers>>

\* ------------------------------------------------------------- traces
\* One observable step of an operation: an event emission, its delivery to a
\* listener, a call on a component, or a write of a field.
Ev(kind, who, what, arg, id, seen) ==
  [kind |-> kind, who |-> who, what |-> what, arg |-> arg, id |-> id, seen |-> seen]

\* The Hls instance while an operation runs: its fields and the trace so far.
Self ==
  [config |-> config, emitter |-> emitter, media |-> media, url |-> url,
   autoLevelCapping |-> autoLevelCapping, levels |-> levels,
   manualLevel |-> manualLevel, nextLoadLevel |-> nextLoadLevel,
   startLevel |-> startLevel, abrNextAutoLevel |-> abrNextAutoLevel,
   trace |-> <<>>]

Log(s, e) == [s EXCEPT !.trace = Append(@, e)]

Call(s, who, what, arg) == Log(s, Ev("call", who, what, arg, 0, s.media))

Set(s, who, what, arg) == Log(s, Ev("set", who, what, arg, 0, s.media))

\* ------------------------------------------------------------- emitter
\* emit: every listener of the event runs, in registration order.
emit(s, event, payload) ==
  LET ls == s.emitter[event]
      deliveries == [i \in 1..Len(ls) |->
                       Ev("deliver", "listener", event, payload, ls[i], s.media)]
  IN [s EXCEPT !.trace = (@ \o <<Ev("emit", "hls", event, payload, 0, s.media)>>)
                           \o deliveries]

\* Fault variant: the registry is left as it is.
removeAllListeners_keeps(s) ==
  Log(s, Ev("set", "hls", "_emitter", NoArg, 0, s.media))

removeAllListeners(s) ==
  Log([s EXCEPT !.emitter = [e \in Events |-> <<>>]],
      Ev("set", "hls", "_emitter", NoArg, 0, s.media))

\* ------------------------------------------------------------- media
attachMedia(s, m) ==
  emit(Set([s EXCEPT !.media = m], "hls", "_media", m), "MEDIA_ATTACHING", m)

\* Fault variant: the event is emitted but _media is not cleared.
detachMedia_keepsMedia(s) == emit(s, "MEDIA_DETACHING", NoArg)

detachMedia(s) ==
  LET s1 == emit(s, "MEDIA_DETACHING", NoArg)
  IN Set([s1 EXCEPT !.media = Null], "hls", "_media", Null)

\* Fault variants: no re-attach; re-attach without the null check.
recoverMediaError_detachOnly(s) == detachMedia(s)

recoverMediaError_alwaysAttach(s) == attachMedia(detachMedia(s), s.media)

recoverMediaError(s) ==
  LET m == s.media
      s1 == detachMedia(s)
  IN IF m # Null THEN attachMedia(s1, m) ELSE s1

buildAbsoluteURL(u) == IF u = RelativeUrl THEN AbsoluteUrl ELSE u

loadSource(s, u) ==
  LET abs == buildAbsoluteURL(u)
  IN emit(Set([s EXCEPT !.url = abs], "hls", "url", abs), "MANIFEST_LOADING", abs)

\* ------------------------------------------------------------- components
RECURSIVE forEach(_, _, _, _)
forEach(s, components, what, arg) ==
  IF components = <<>> THEN s
  ELSE forEach(Call(s, Head(components), what, arg), Tail(components), what, arg)

\* Fault variant: every component is told to start, not only the network ones.
startLoad_all(s, startPosition) ==
  forEach(s, coreComponents \o networkControllers, "startLoad", startPosition)

startLoad(s, startPosition) == forEach(s, networkControllers, "startLoad", startPosition)

stopLoad(s) == forEach(s, networkControllers, "stopLoad", NoArg)

\* Fault variant: streamController.forceStartLoad is not consulted.
onParsedComplete_autoStartOnly(s, forceStartLoad) ==
  IF s.config.autoStartLoad THEN startLoad(s, s.config.startPosition) ELSE s

\* levelController.onParsedComplete, with streamController.forceStartLoad as read.
onParsedComplete(s, forceStartLoad) ==
  IF s.config.autoStartLoad \/ forceStartLoad
  THEN startLoad(s, s.config.startPosition)
  ELSE s

\* Fault variant: the listeners are cleared first, the components come last.
destroy_clearsFirst(s) ==
  LET s1 == removeAllListeners(s)
      s2 == emit(s1, "DESTROYING", NoArg)
      s3 == detachMedia(s2)
      s4 == forEach(s3, coreComponents \o networkControllers, "destroy", NoArg)
      s5 == Set([s4 EXCEPT !.url = Null], "hls", "url", Null)
  IN Set([s5 EXCEPT !.autoLevelCapping = Auto], "hls", "_autoLevelCapping", Auto)

\* Fault variant: only coreComponents are destroyed.
destroy_skipsNetwork(s) ==
  LET s1 == emit(s, "DESTROYING", NoArg)
      s2 == detachMedia(s1)
      s3 == forEach(s2, coreComponents, "destroy", NoArg)
      s4 == Set([s3 EXCEPT !.url = Null], "hls", "url", Null)
      s5 == removeAllListeners(s4)
  IN Set([s5 EXCEPT !.autoLevelCapping = Auto], "hls", "_autoLevelCapping", Auto)

destroy(s) ==
  LET s1 == emit(s, "DESTROYING", NoArg)
      s2 == detachMedia(s1)
      s3 == forEach(s2, coreComponents \o networkControllers, "destroy", NoArg)
      s4 == Set([s3 EXCEPT !.url = Null], "hls", "url", Null)
      s5 == removeAllListeners(s4)
  IN Set([s5 EXCEPT !.autoLevelCapping = Auto], "hls", "_autoLevelCapping", Auto)

removeLevel(s, levelIndex, urlId) ==
  Call(s, "levelController", "removeLevel", levelIndex)

\* The list without the level at index i (indices count from 0).
RemoveAt(ls, i) == SubSeq(ls, 1, i) \o SubSeq(ls, i + 2, Len(ls))

\* ------------------------------------------------------------- level policy
Max(a, b) == IF a >= b THEN a ELSE b

Min(a, b) == IF a <= b THEN a ELSE b

\* Fault variant: a level whose bitrate equals the floor qualifies.
RECURSIVE scanLevels_atLeast(_, _, _)
scanLevels_atLeast(ls, minAutoBitrate, i) ==
  IF i >= Len(ls) THEN 0
  ELSE IF ls[i + 1] >= minAutoBitrate THEN i
  ELSE scanLevels_atLeast(ls, minAutoBitrate, i + 1)

\* The loop of minAutoLevel from index i on (indices count from 0).
RECURSIVE scanLevels(_, _, _)
scanLevels(ls, minAutoBitrate, i) ==
  IF i >= Len(ls) THEN 0
  ELSE IF ls[i + 1] > minAutoBitrate THEN i
  ELSE scanLevels(ls, minAutoBitrate, i + 1)

minAutoLevel(s) == scanLevels(s.levels, s.config.minAutoBitrate, 0)

\* Fault variant: the capping value is cut down to the last index.
maxAutoLevel_withinList(s) ==
  IF s.autoLevelCapping = Auto \/ s.autoLevelCapping > Len(s.levels) - 1
  THEN Len(s.levels) - 1
  ELSE s.autoLevelCapping

maxAutoLevel(s) ==
  IF s.autoLevelCapping = Auto /\ Len(s.levels) # 0
  THEN Len(s.levels) - 1
  ELSE s.autoLevelCapping

nextAutoLevel(s) ==
  Min(Max(s.abrNextAutoLevel, minAutoLevel(s)), maxAutoLevel(s))

set_nextAutoLevel(s, nextLevel) ==
  LET v == Max(minAutoLevel(s), nextLevel)
  IN Set([s EXCEPT !.abrNextAutoLevel = v], "abrController", "nextAutoLevel", v)

set_autoLevelCapping(s, newLevel) ==
  IF s.autoLevelCapping # newLevel
  THEN Set([s EXCEPT !.autoLevelCapping = newLevel], "hls", "_autoLevelCapping", newLevel)
  ELSE s

autoLevelEnabled(s) == s.manualLevel = Auto

\* Fault variant: -1 is not written, so a manual level cannot be given up.
set_loadLevel_keepsManual(s, newLevel) ==
  IF newLevel = Auto THEN s
  ELSE Set([s EXCEPT !.manualLevel = newLevel], "levelController", "manualLevel", newLevel)

set_loadLevel(s, newLevel) ==
  Set([s EXCEPT !.manualLevel = newLevel], "levelController", "manualLevel", newLevel)

\* Fault variant: the switch is requested before the manual level is written.
set_currentLevel_switchFirst(s, newLevel) ==
  set_loadLevel(Call(s, "streamController", "immediateLevelSwitch", NoArg), newLevel)

set_currentLevel(s, newLevel) ==
  Call(set_loadLevel(s, newLevel), "streamController", "immediateLevelSwitch", NoArg)

\* Fault variant: the immediate switch is requested instead of the next switch.
set_nextLevel_immediate(s, newLevel) ==
  Call(Set([s EXCEPT !.manualLevel = newLevel], "levelController", "manualLevel", newLevel),
       "streamController", "immediateLevelSwitch", NoArg)

set_nextLevel(s, newLevel) ==
  Call(Set([s EXCEPT !.manualLevel = newLevel], "levelController", "manualLevel", newLevel),
       "streamController", "nextLevelSwitch", NoArg)

\* Fault variant: the manual level is overwritten as well.
set_nextLoadLevel_manual(s, level) ==
  Set([s EXCEPT !.manualLevel = level, !.nextLoadLevel = level],
      "levelController", "nextLoadLevel", level)

set_nextLoadLevel(s, level) ==
  Set([s EXCEPT !.nextLoadLevel = level], "levelController", "nextLoadLevel", level)

\* Fault variant: the value is stored as given.
set_startLevel_unclamped(s, newLevel) ==
  Set([s EXCEPT !.startLevel = newLevel], "levelController", "startLevel", newLevel)

set_startLevel(s, newLevel) ==
  LET v == IF newLevel # Auto THEN Max(newLevel, minAutoLevel(s)) ELSE newLevel
  IN Set([s EXCEPT !.startLevel = v], "levelController", "startLevel", v)

Bool(b) == IF b THEN 1 ELSE 0

\* !!shouldStartCapping, for the values a caller may assign: 0 stands for
\* false (and the other falsy values), 1 for true, 2 for any other truthy value.
CapValues == {0, 1, 2}

ToBoolean(v) == v # 0

\* Fault variant: disabling does not reset autoLevelCapping.
set_capLevelToPlayerSize_keepsCap(s, shouldStartCapping) ==
  LET newCapLevelToPlayerSize == ToBoolean(shouldStartCapping)
  IN IF newCapLevelToPlayerSize # s.config.capLevelToPlayerSize
     THEN LET s1 == IF newCapLevelToPlayerSize
                    THEN Call(s, "capLevelController", "startCapping", NoArg)
                    ELSE Call(Call(s, "capLevelController", "stopCapping", NoArg),
                              "streamController", "nextLevelSwitch", NoArg)
          IN Set([s1 EXCEPT !.config.capLevelToPlayerSize = newCapLevelToPlayerSize],
                 "config", "capLevelToPlayerSize", Bool(newCapLevelToPlayerSize))
     ELSE s

\* Fault variant: the comparison with the configured flag is missing.
set_capLevelToPlayerSize_always(s, shouldStartCapping) ==
  LET newCapLevelToPlayerSize == ToBoolean(shouldStartCapping)
      s1 == IF newCapLevelToPlayerSize
            THEN Call(s, "capLevelController", "startCapping", NoArg)
            ELSE Call(set_autoLevelCapping(
                        Call(s, "capLevelController", "stopCapping", NoArg), Auto),
                      "streamController", "nextLevelSwitch", NoArg)
  IN Set([s1 EXCEPT !.config.capLevelToPlayerSize = newCapLevelToPlayerSize],
         "config", "capLevelToPlayerSize", Bool(newCapLevelToPlayerSize))

set_capLevelToPlayerSize(s, shouldStartCapping) ==
  LET newCapLevelToPlayerSize == ToBoolean(shouldStartCapping)
  IN IF newCapLevelToPlayerSize # s.config.capLevelToPlayerSize
     THEN LET s1 == IF newCapLevelToPlayerSize
                    THEN Call(s, "capLevelController", "startCapping", NoArg)
                    ELSE Call(set_autoLevelCapping(
                                Call(s, "capLevelController", "stopCapping", NoArg), Auto),
                              "streamController", "nextLevelSwitch", NoArg)
          IN Set([s1 EXCEPT !.config.capLevelToPlayerSize = newCapLevelToPlayerSize],
                 "config", "capLevelToPlayerSize", Bool(newCapLevelToPlayerSize))
     ELSE s

\* ------------------------------------------------------------- constructor
createController(ControllerClass, name, components) ==
  IF ControllerClass THEN Append(components, name) ELSE components

ConstructNetwork(cfg) ==
  LET n0 == <<"levelController", "streamController">>
      n1 == createController(cfg.audioTrackController, "audioTrackController", n0)
      n2 == createController(cfg.audioStreamController, "audioStreamController", n1)
      n3 == createController(cfg.subtitleTrackController, "subtitleTrackController", n2)
  IN createController(cfg.subtitleStreamController, "subtitleStreamController", n3)

ConstructCore(cfg) ==
  LET c0 == <<"playListLoader", "keyLoader", "abrController", "bufferController",
              "capLevelController", "fpsController", "fragmentTracker">>
      c1 == createController(cfg.timelineController, "timelineController", c0)
  IN createController(cfg.emeController, "emeController", c1)

HlsConfig(optional, autoStartLoad, startPosition, minAutoBitrate, cap) ==
  [audioTrackController |-> "audioTrackController" \in optional,
   audioStreamController |-> "audioStreamController" \in optional,
   subtitleTrackController |-> "subtitleTrackController" \in optional,
   subtitleStreamController |-> "subtitleStreamController" \in optional,
   timelineController |-> "timelineController" \in optional,
   emeController |-> "emeController" \in optional,
   autoStartLoad |-> autoStartLoad,
   startPosition |-> startPosition,
   minAutoBitrate |-> minAutoBitrate,
   capLevelToPlayerSize |-> cap]

NoOp == [op |-> "constructor", arg |-> NoArg, trace |-> <<>>]

\* Fault variant: the stream controller is built before the fragment tracker
\* and each stream controller before its track controller.
ConstructionOrder_streamsFirst(cfg) ==
  LET o0 == <<"abrController", "bufferController", "capLevelController",
              "fpsController", "playListLoader", "keyLoader", "levelController",
              "streamController", "fragmentTracker">>
      o1 == createController(cfg.audioStreamController, "audioStreamController", o0)
      o2 == createController(cfg.audioTrackController, "audioTrackController", o1)
      o3 == createController(cfg.subtitleStreamController, "subtitleStreamController", o2)
      o4 == createController(cfg.subtitleTrackController, "subtitleTrackController", o3)
      o5 == createController(cfg.timelineController, "timelineController", o4)
  IN createController(cfg.emeController, "emeController", o5)

\* The components in the order the constructor runs their constructors.
ConstructionOrder(cfg) ==
  LET o0 == <<"abrController", "bufferController", "capLevelController",
              "fpsController", "playListLoader", "keyLoader", "levelController",
              "fragmentTracker", "streamController">>
      o1 == createController(cfg.audioTrackController, "audioTrackController", o0)
      o2 == createController(cfg.audioStreamController, "audioStreamController", o1)
      o3 == createController(cfg.subtitleTrackController, "subtitleTrackController", o2)
      o4 == createController(cfg.subtitleStreamController, "subtitleStreamController", o3)
      o5 == createController(cfg.timelineController, "timelineController", o4)
  IN createController(cfg.emeController, "emeController", o5)

\* The events a component may handle, and the components whose handling order
\* matters.
ComponentEvents == {"MEDIA_ATTACHING", "MEDIA_DETACHING"}

OrderedPairs ==
  {<<"fragmentTracker", "streamController">>,
   <<"audioTrackController", "audioStreamController">>,
   <<"subtitleTrackController", "subtitleStreamController">>}

\* A component's place in its pair: "first", "second", or "none".
Role(c) ==
  IF \E p \in OrderedPairs : p[1] = c THEN "first"
  ELSE IF \E p \in OrderedPairs : p[2] = c THEN "second"
  ELSE "none"

\* The k-th constructed component registers its handlers under listener id -k.
ComponentId(k) == 0 - k

\* A component's constructor subscribes it to the events it handles.
RECURSIVE RegisterFrom(_, _, _, _)
RegisterFrom(em, order, k, handles) ==
  IF k > Len(order) THEN em
  ELSE LET mine == IF Role(order[k]) \in DOMAIN handles
                   THEN handles[Role(order[k])] ELSE {}
           em1 == [e \in Events |->
                     IF e \in mine THEN Append(em[e], ComponentId(k)) ELSE em[e]]
       IN RegisterFrom(em1, order, k + 1, handles)

Subscriptions(cfg, handles) ==
  RegisterFrom([e \in Events |-> <<>>], ConstructionOrder(cfg), 1, handles)

\* The instance after construction, its components subscribed as handles says.
ConstructedHandling(cfg, handles) ==
  /\ config = cfg
  /\ coreComponents = ConstructCore(cfg)
  /\ networkControllers = ConstructNetwork(cfg)
  /\ emitter = Subscriptions(cfg, handles)
  /\ nextId = 1
  /\ media = Null
  /\ url = Null
  /\ autoLevelCapping = Auto
  /\ levels = <<>>
  /\ manualLevel = Auto
  /\ nextLoadLevel = Auto
  /\ startLevel = Auto
  /\ abrNextAutoLevel = Auto
  /\ last = NoOp
  /\ prev = NoOp
  /\ clearedBelow = 1
  /\ stack = <<>>
  /\ handlers = <<>>

Constructed(cfg) ==
  /\ config = cfg
  /\ coreComponents = ConstructCore(cfg)
  /\ networkControllers = ConstructNetwork(cfg)
  /\ emitter = [e \in Events |-> <<>>]
  /\ nextId = 1
  /\ media = Null
  /\ url = Null
  /\ autoLevelCapping = Auto
  /\ levels = <<>>
  /\ manualLevel = Auto
  /\ nextLoadLevel = Auto
  /\ startLevel = Auto
  /\ abrNextAutoLevel = Auto
  /\ last = NoOp
  /\ prev = NoOp
  /\ clearedBelow = 1
  /\ stack = <<>>
  /\ handlers = <<>>

\* ------------------------------------------------------------- actions
\* The fields an operation leaves behind, and the record of what it did.
Fields(op, arg, t) ==
  /\ config' = t.config
  /\ emitter' = t.emitter
  /\ media' = t.media
  /\ url' = t.url
  /\ autoLevelCapping' = t.autoLevelCapping
  /\ levels' = t.levels
  /\ manualLevel' = t.manualLevel
  /\ nextLoadLevel' = t.nextLoadLevel
  /\ startLevel' = t.startLevel
  /\ abrNextAutoLevel' = t.abrNextAutoLevel
  /\ last' = [op |-> op, arg |-> arg, trace |-> t.trace]
  /\ UNCHANGED <<coreComponents, networkControllers, stack, handlers>>

\* What is kept of the operation before the last one: the events it emitted.
Emitted(trace) == SelectSeq(trace, LAMBDA e : e.kind = "emit")

Before(o) == [op |-> o.op, arg |-> o.arg, trace |-> Emitted(o.trace)]

\* A lifecycle operation: the one before it is kept as well.
Done(op, arg, t) ==
  /\ Fields(op, arg, t)
  /\ prev' = Before(last)
  /\ UNCHANGED <<nextId, clearedBelow>>

\* A level getter/setter operation.
DoneLevel(op, arg, t) ==
  /\ Fields(op, arg, t)
  /\ UNCHANGED <<prev, nextId, clearedBelow>>

On ==
  /\ nextId <= MaxRegs
  /\ \E e \in Events :
       /\ emitter' = [emitter EXCEPT ![e] = Append(@, nextId)]
       /\ nextId' = nextId + 1
       /\ last' = [op |-> "on", arg |-> nextId, trace |-> <<>>]
       /\ prev' = Before(last)
  /\ UNCHANGED <<config, coreComponents, networkControllers, media, url,
                 autoLevelCapping, levels, manualLevel, nextLoadLevel, startLevel,
                 abrNextAutoLevel, clearedBelow, stack, handlers>>

AttachMedia ==
  \E m \in MediaRefs : Done("attachMedia", m, attachMedia(Self, m))

DetachMedia ==
  Done("detachMedia", NoArg, detachMedia(Self))

RecoverMediaError ==
  Done("recoverMediaError", NoArg, recoverMediaError(Self))

LoadSource ==
  \E u \in {RelativeUrl, AbsoluteUrl} : Done("loadSource", u, loadSource(Self, u))

StartLoad ==
  \E p \in StartPositions : Done("startLoad", p, startLoad(Self, p))

StopLoad ==
  Done("stopLoad", NoArg, stopLoad(Self))

\* The level controller reports that every controller has seen the parsed
\* manifest; the stream controller's forceStartLoad flag may be set or not.
OnParsedComplete ==
  \E forceStartLoad \in BOOLEAN :
    Done("onParsedComplete", Bool(forceStartLoad), onParsedComplete(Self, forceStartLoad))

Destroy ==
  /\ Fields("destroy", NoArg, destroy(Self))
  /\ prev' = Before(last)
  /\ clearedBelow' = nextId
  /\ UNCHANGED nextId

\* The level controller replaces its level list (manifest parsed, level removed).
LevelsUpdated ==
  /\ \E n \in 0..MaxLevels : \E ls \in [1..n -> Bitrates] :
       /\ levels' = ls
       /\ last' = [op |-> "levels", arg |-> n, trace |-> <<>>]
  /\ UNCHANGED <<config, coreComponents, networkControllers, emitter, nextId, media,
                 url, autoLevelCapping, manualLevel, nextLoadLevel, startLevel,
                 abrNextAutoLevel, prev, clearedBelow, stack, handlers>>

\* The abr controller's estimate changes; any index, in range or not.
AbrEstimate ==
  /\ \E n \in Auto..(MaxLevel + 1) :
       /\ abrNextAutoLevel' = n
       /\ last' = [op |-> "estimate", arg |-> n, trace |-> <<>>]
  /\ UNCHANGED <<config, coreComponents, networkControllers, emitter, nextId, media,
                 url, autoLevelCapping, levels, manualLevel, nextLoadLevel, startLevel,
                 prev, clearedBelow, stack, handlers>>

\* removeLevel: the level controller drops one variant of the level, and the
\* level itself when that was its only variant.
RemoveLevel ==
  \E i \in 0..MaxLevel : \E gone \in BOOLEAN :
    LET t == removeLevel(Self, i, 0)
        ls == IF gone /\ i < Len(levels) THEN RemoveAt(levels, i) ELSE levels
    IN DoneLevel("removeLevel", i, [t EXCEPT !.levels = ls])

SetNextAutoLevel ==
  \E n \in LevelArgs : DoneLevel("set nextAutoLevel", n, set_nextAutoLevel(Self, n))

SetAutoLevelCapping ==
  \E n \in LevelArgs : DoneLevel("set autoLevelCapping", n, set_autoLevelCapping(Self, n))

SetCurrentLevel ==
  \E n \in LevelArgs : DoneLevel("set currentLevel", n, set_currentLevel(Self, n))

SetNextLevel ==
  \E n \in LevelArgs : DoneLevel("set nextLevel", n, set_nextLevel(Self, n))

SetLoadLevel ==
  \E n \in LevelArgs : DoneLevel("set loadLevel", n, set_loadLevel(Self, n))

SetNextLoadLevel ==
  \E n \in LevelArgs : DoneLevel("set nextLoadLevel", n, set_nextLoadLevel(Self, n))

SetStartLevel ==
  \E n \in LevelArgs : DoneLevel("set startLevel", n, set_startLevel(Self, n))

SetCapLevelToPlayerSize ==
  \E v \in CapValues :
    DoneLevel("set capLevelToPlayerSize", v, set_capLevelToPlayerSize(Self, v))

\* ------------------------------------------------------------- re-entrancy
\* destroy() step by step, so that a listener can call destroy() again while
\* the outer call is still dispatching. A frame is one destroy() in progress:
\* the event it is emitting, the listeners that emit is iterating over, and
\* the position of the next one to run.
Idle == stack = <<>>

Top == stack[Len(stack)]

Frame(s, event) == [pc |-> event, ls |-> s[event], i |-> 1]

\* What the callback registered under id does besides observing the event.
HandlerKinds == {"destroy", "destroyOnce"}

Handler(id) == IF id \in DOMAIN handlers THEN handlers[id] ELSE "passive"

\* A callback that calls hls.destroy() once only does not do so again.
Ran(id) ==
  IF Handler(id) = "destroyOnce" THEN [handlers EXCEPT ![id] = "passive"] ELSE handlers

Told(frame) == Ev("deliver", "listener", frame.pc, NoArg, frame.ls[frame.i], media)

Advanced == [stack EXCEPT ![Len(stack)].i = @ + 1]

StepUnchanged ==
  UNCHANGED <<config, coreComponents, networkControllers, emitter, nextId, media, url,
              autoLevelCapping, levels, manualLevel, nextLoadLevel, startLevel,
              abrNextAutoLevel, prev, clearedBelow>>

\* on(event, () => hls.destroy()), for the two events destroy() emits.
OnCallingDestroy ==
  /\ Idle
  /\ nextId <= MaxRegs
  /\ \E e \in {"DESTROYING", "MEDIA_DETACHING"} : \E k \in HandlerKinds :
       /\ emitter' = [emitter EXCEPT ![e] = Append(@, nextId)]
       /\ handlers' = handlers @@ (nextId :> k)
       /\ nextId' = nextId + 1
       /\ last' = [op |-> "on", arg |-> nextId, trace |-> <<>>]
       /\ prev' = Before(last)
  /\ UNCHANGED <<config, coreComponents, networkControllers, media, url,
                 autoLevelCapping, levels, manualLevel, nextLoadLevel, startLevel,
                 abrNextAutoLevel, clearedBelow, stack>>

IdleOn == Idle /\ On

IdleAttachMedia == Idle /\ AttachMedia

\* The application calls destroy(): this.emit(Events.DESTROYING) begins.
CallDestroy ==
  /\ Idle
  /\ stack' = <<Frame(emitter, "DESTROYING")>>
  /\ last' = [op |-> "destroy", arg |-> NoArg,
               trace |-> <<Ev("emit", "hls", "DESTROYING", NoArg, 0, media)>>]
  /\ prev' = Before(last)
  /\ UNCHANGED <<config, coreComponents, networkControllers, emitter, nextId, media, url,
                 autoLevelCapping, levels, manualLevel, nextLoadLevel, startLevel,
                 abrNextAutoLevel, clearedBelow, handlers>>

\* The emit in progress runs its next listener, which only observes.
DeliverPassive ==
  /\ ~Idle
  /\ Top.i <= Len(Top.ls)
  /\ Handler(Top.ls[Top.i]) = "passive"
  /\ stack' = Advanced
  /\ last' = [last EXCEPT !.trace = Append(@, Told(Top))]
  /\ UNCHANGED handlers
  /\ StepUnchanged

\* The next listener calls hls.destroy(): a nested destroy() begins before
\* the outer emit goes on to its remaining listeners.
DeliverCallingDestroy ==
  /\ ~Idle
  /\ Top.i <= Len(Top.ls)
  /\ Handler(Top.ls[Top.i]) \in HandlerKinds
  /\ Len(stack) < MaxDepth
  /\ stack' = Append(Advanced, Frame(emitter, "DESTROYING"))
  /\ last' = [last EXCEPT !.trace =
                 (@ \o <<Told(Top)>>) \o <<Ev("emit", "hls", "DESTROYING", NoArg, 0, media)>>]
  /\ handlers' = Ran(Top.ls[Top.i])
  /\ StepUnchanged

\* The nested call does not fit on the call stack: RangeError unwinds every
\* destroy() in progress, none of which catches it.
StackOverflow ==
  /\ ~Idle
  /\ Top.i <= Len(Top.ls)
  /\ Handler(Top.ls[Top.i]) \in HandlerKinds
  /\ Len(stack) >= MaxDepth
  /\ stack' = <<>>
  /\ last' = [last EXCEPT !.trace =
                 (@ \o <<Told(Top)>>) \o <<Ev("throw", "hls", "RangeError", NoArg, 0, media)>>]
  /\ handlers' = Ran(Top.ls[Top.i])
  /\ StepUnchanged

\* emit(DESTROYING) has returned: detachMedia() begins with emit(MEDIA_DETACHING).
EmitDetaching ==
  /\ ~Idle
  /\ Top.i > Len(Top.ls)
  /\ Top.pc = "DESTROYING"
  /\ stack' = [stack EXCEPT ![Len(stack)] = Frame(emitter, "MEDIA_DETACHING")]
  /\ last' = [last EXCEPT !.trace =
                 Append(@, Ev("emit", "hls", "MEDIA_DETACHING", NoArg, 0, media))]
  /\ UNCHANGED handlers
  /\ StepUnchanged

\* What destroy() does once emit(MEDIA_DETACHING) has returned.
destroyAfterDetaching(s) ==
  LET s1 == Set([s EXCEPT !.media = Null], "hls", "_media", Null)
      s2 == forEach(s1, coreComponents \o networkControllers, "destroy", NoArg)
      s3 == Set([s2 EXCEPT !.url = Null], "hls", "url", Null)
      s4 == removeAllListeners(s3)
  IN Set([s4 EXCEPT !.autoLevelCapping = Auto], "hls", "_autoLevelCapping", Auto)

\* emit(MEDIA_DETACHING) has returned: the innermost destroy() runs to its end
\* and returns to the listener that called it, or to the application.
ReturnFromDestroy ==
  /\ ~Idle
  /\ Top.i > Len(Top.ls)
  /\ Top.pc = "MEDIA_DETACHING"
  /\ LET t == destroyAfterDetaching([Self EXCEPT !.trace = last.trace])
     IN /\ media' = t.media
        /\ url' = t.url
        /\ emitter' = t.emitter
        /\ autoLevelCapping' = t.autoLevelCapping
        /\ last' = [last EXCEPT !.trace = t.trace]
  /\ stack' = SubSeq(stack, 1, Len(stack) - 1)
  /\ clearedBelow' = nextId
  /\ UNCHANGED <<config, coreComponents, networkControllers, nextId, levels,
                 manualLevel, nextLoadLevel, startLevel, abrNextAutoLevel, prev,
                 handlers>>

\* ------------------------------------------------------------- specifications
\* Media, source and listener lifecycle of one instance built with every
\* optional controller.
Init == Constructed(HlsConfig(OptionalNames, TRUE, Auto, 0, FALSE))

Next ==
  \/ On
  \/ AttachMedia
  \/ DetachMedia
  \/ RecoverMediaError
  \/ LoadSource
  \/ SetAutoLevelCapping
  \/ Destroy

Spec == Init /\ [][Next]_vars

\* Fan-out to the component lists, for every choice of optional controllers.
InitComponents ==
  \E optional \in SUBSET OptionalNames : \E autoStartLoad \in BOOLEAN :
    \E startPosition \in StartPositions :
      Constructed(HlsConfig(optional, autoStartLoad, startPosition, 0, FALSE))

NextComponents ==
  \/ AttachMedia
  \/ StartLoad
  \/ StopLoad
  \/ OnParsedComplete
  \/ Destroy

SpecComponents == InitComponents /\ [][NextComponents]_vars

\* Automatic level selection: the derived bounds and the estimator's input.
InitAuto ==
  \E minAutoBitrate \in Floors :
    Constructed(HlsConfig(OptionalNames, TRUE, Auto, minAutoBitrate, FALSE))

NextAuto ==
  \/ LevelsUpdated
  \/ RemoveLevel
  \/ AbrEstimate
  \/ SetAutoLevelCapping
  \/ SetNextAutoLevel
  \/ SetStartLevel

SpecAuto == InitAuto /\ [][NextAuto]_vars

\* Manual level switching and the capping toggle.
InitSwitch ==
  \E cap \in BOOLEAN : Constructed(HlsConfig(OptionalNames, TRUE, Auto, 0, cap))

NextSwitch ==
  \/ LevelsUpdated
  \/ SetAutoLevelCapping
  \/ SetCurrentLevel
  \/ SetNextLevel
  \/ SetLoadLevel
  \/ SetNextLoadLevel
  \/ SetCapLevelToPlayerSize

SpecSwitch == InitSwitch /\ [][NextSwitch]_vars

\* Construction order and the subscriptions made by it, for every choice of
\* optional controllers and of the events that the first and the second
\* components of the ordered pairs handle.
InitOrder ==
  \E optional \in SUBSET OptionalNames :
    \E handles \in [{"first", "second"} -> SUBSET ComponentEvents] :
      ConstructedHandling(HlsConfig(optional, TRUE, Auto, 0, FALSE), handles)

NextOrder ==
  \/ AttachMedia
  \/ DetachMedia
  \/ Destroy

SpecOrder == InitOrder /\ [][NextOrder]_vars

\* destroy() with listeners that call destroy() themselves.
InitReentrant == Constructed(HlsConfig(OptionalNames, TRUE, Auto, 0, FALSE))

NextReentrant ==
  \/ IdleOn
  \/ OnCallingDestroy
  \/ IdleAttachMedia
  \/ CallDestroy
  \/ DeliverPassive
  \/ DeliverCallingDestroy
  \/ StackOverflow
  \/ EmitDetaching
  \/ ReturnFromDestroy

SpecReentrant == InitReentrant /\ [][NextReentrant]_vars

\* ------------------------------------------------------------- properties
Calls(t) == SelectSeq(t, LAMBDA e : e.kind = "call")

StreamCalls(t) == SelectSeq(t, LAMBDA e : e.kind = "call" /\ e.who = "streamController")

Writes(t) == SelectSeq(t, LAMBDA e : e.kind = "set")

Deliveries(t) == SelectSeq(t, LAMBDA e : e.kind = "deliver")

Names(t) == [i \in 1..Len(t) |-> t[i].what]

\* Some entry of t satisfying pe comes before some entry satisfying pf.
Precedes(t, pe(_), pf(_)) ==
  \E i \in 1..Len(t) : \E j \in 1..Len(t) : i < j /\ pe(t[i]) /\ pf(t[j])

\* C1: whatever the level list, bitrate floor, capping value and estimator
\* suggestion, nextAutoLevel reads a value between minAutoLevel and maxAutoLevel.
C1_NextAutoLevelWithinBounds ==
  /\ minAutoLevel(Self) <= nextAutoLevel(Self)
  /\ nextAutoLevel(Self) <= maxAutoLevel(Self)

\* Every component the constructor built under the current configuration.
ConstructedNames ==
  {"playListLoader", "keyLoader", "abrController", "bufferController",
   "capLevelController", "fpsController", "fragmentTracker",
   "levelController", "streamController"}
    \cup {n \in OptionalNames : config[n]}

DestroyCalls(t, c) ==
  Len(SelectSeq(t, LAMBDA e : e.kind = "call" /\ e.what = "destroy" /\ e.who = c))

\* C2: one destroy() call destroys every constructed component, the optional
\* ones included, exactly once, and destroys nothing else.
C2_DestroyEachComponentOnce ==
  last.op = "destroy" =>
    /\ \A c \in ConstructedNames : DestroyCalls(last.trace, c) = 1
    /\ \A i \in 1..Len(last.trace) :
         (last.trace[i].kind = "call" /\ last.trace[i].what = "destroy")
           => last.trace[i].who \in ConstructedNames

C2_Witness ==
  /\ last.op = "destroy"
  /\ config.emeController /\ config.audioStreamController
  /\ ~config.timelineController /\ ~config.subtitleTrackController
  /\ DestroyCalls(last.trace, "emeController") = 1
  /\ DestroyCalls(last.trace, "audioStreamController") = 1

\* C3: when destroy() has returned no listener is registered, autoLevelCapping
\* is -1, media and url are null; and no later emission is delivered to a
\* listener that was registered before that destroy().
C3_DestroyClearsState ==
  /\ last.op = "destroy" =>
       /\ \A e \in Events : emitter[e] = <<>>
       /\ autoLevelCapping = Auto
       /\ media = Null
       /\ url = Null
  /\ \A e \in Events : \A i \in 1..Len(emitter[e]) : emitter[e][i] >= clearedBelow
  /\ last.op # "destroy" =>
       \A i \in 1..Len(last.trace) :
         last.trace[i].kind = "deliver" => last.trace[i].id >= clearedBelow

C3_Witness ==
  /\ last.op = "destroy"
  /\ prev.op = "loadSource"
  /\ \E i \in 1..Len(last.trace) :
       /\ last.trace[i].kind = "deliver"
       /\ last.trace[i].what = "MEDIA_DETACHING"
       /\ last.trace[i].seen # Null

\* C4: attachMedia(m) directly followed by detachMedia() leaves media null;
\* the first call emits MEDIA_ATTACHING with payload m and nothing else, the
\* second emits MEDIA_DETACHING and nothing else.
C4_AttachThenDetach ==
  (last.op = "detachMedia" /\ prev.op = "attachMedia") =>
    /\ media = Null
    /\ Names(prev.trace) = <<"MEDIA_ATTACHING">>
    /\ prev.trace[1].arg = prev.arg
    /\ Names(Emitted(last.trace)) = <<"MEDIA_DETACHING">>

C4_Witness ==
  /\ last.op = "detachMedia"
  /\ prev.op = "attachMedia"
  /\ prev.arg = MaxMedia
  /\ media = Null
  /\ \E i \in 1..Len(last.trace) :
       last.trace[i].kind = "deliver" /\ last.trace[i].seen = prev.arg

\* C5: recoverMediaError() with media m attached emits MEDIA_DETACHING and then
\* MEDIA_ATTACHING with payload m, and m is attached again when it returns.
C5_RecoverReattaches ==
  [][(last'.op = "recoverMediaError" /\ media # Null) =>
       /\ media' = media
       /\ Names(Emitted(last'.trace)) = <<"MEDIA_DETACHING", "MEDIA_ATTACHING">>
       /\ Emitted(last'.trace)[2].arg = media]_vars

C5_Witness ==
  /\ last.op = "recoverMediaError"
  /\ media = MaxMedia
  /\ \E i \in 1..Len(last.trace) :
       /\ last.trace[i].kind = "deliver"
       /\ last.trace[i].what = "MEDIA_ATTACHING"
       /\ last.trace[i].arg = MaxMedia

\* The fields of the instance and of its collaborators are left as they were.
FieldsUnchanged ==
  UNCHANGED <<config, coreComponents, networkControllers, emitter, media, url,
              autoLevelCapping, levels, manualLevel, nextLoadLevel, startLevel,
              abrNextAutoLevel>>

\* C6 as stated: recoverMediaError() with no media attached changes no state,
\* emits no event and calls no component.
C6_RecoverWithoutMediaNoOp ==
  [][(last'.op = "recoverMediaError" /\ media = Null) =>
       /\ FieldsUnchanged
       /\ Emitted(last'.trace) = <<>>
       /\ Calls(last'.trace) = <<>>]_vars

\* C6 amended: recoverMediaError() with no media attached changes no state and
\* calls no component; it emits MEDIA_DETACHING once and never MEDIA_ATTACHING.
C6_RecoverWithoutMediaDetaches ==
  [][(last'.op = "recoverMediaError" /\ media = Null) =>
       /\ FieldsUnchanged
       /\ Names(Emitted(last'.trace)) = <<"MEDIA_DETACHING">>
       /\ Calls(last'.trace) = <<>>]_vars

C6_Witness ==
  /\ last.op = "recoverMediaError"
  /\ media = Null
  /\ \E i \in 1..Len(last.trace) :
       /\ last.trace[i].kind = "deliver"
       /\ last.trace[i].what = "MEDIA_DETACHING"
       /\ last.trace[i].seen = Null

IsManualWrite(v, e) ==
  e.kind = "set" /\ e.who = "levelController" /\ e.what = "manualLevel" /\ e.arg = v

IsStreamCall(e) == e.kind = "call" /\ e.who = "streamController"

\* C7: currentLevel := L writes the manual level L and then calls
\* immediateLevelSwitch on the stream controller, once; loadLevel := L writes
\* the manual level L and calls nothing on the stream controller.
C7_CurrentLevelVsLoadLevel ==
  /\ last.op = "set currentLevel" =>
       /\ manualLevel = last.arg
       /\ Names(StreamCalls(last.trace)) = <<"immediateLevelSwitch">>
       /\ Precedes(last.trace, LAMBDA e : IsManualWrite(last.arg, e), IsStreamCall)
       /\ ~Precedes(last.trace, IsStreamCall, LAMBDA e : IsManualWrite(last.arg, e))
  /\ last.op = "set loadLevel" =>
       /\ manualLevel = last.arg
       /\ Calls(last.trace) = <<>>

C7_Witness ==
  /\ last.op = "set currentLevel"
  /\ last.arg = MaxLevel
  /\ manualLevel = MaxLevel
  /\ Len(StreamCalls(last.trace)) = 1

\* C8: nextLevel := L writes the manual level L and then calls nextLevelSwitch
\* on the stream controller, once, and never immediateLevelSwitch.
C8_NextLevelSwitch ==
  last.op = "set nextLevel" =>
    /\ manualLevel = last.arg
    /\ Names(StreamCalls(last.trace)) = <<"nextLevelSwitch">>
    /\ Precedes(last.trace, LAMBDA e : IsManualWrite(last.arg, e), IsStreamCall)
    /\ ~Precedes(last.trace, IsStreamCall, LAMBDA e : IsManualWrite(last.arg, e))

C8_Witness ==
  /\ last.op = "set nextLevel"
  /\ last.arg = 0
  /\ manualLevel = 0
  /\ Names(StreamCalls(last.trace)) = <<"nextLevelSwitch">>

\* C9: nextLoadLevel := L leaves the manual level, and so autoLevelEnabled, as
\* it was, calls no component, and stores L as the level controller's
\* nextLoadLevel.
C9_NextLoadLevelOnly ==
  [][last'.op = "set nextLoadLevel" =>
       /\ manualLevel' = manualLevel
       /\ autoLevelEnabled(Self') = autoLevelEnabled(Self)
       /\ nextLoadLevel' = last'.arg
       /\ Calls(last'.trace) = <<>>
       /\ Names(Writes(last'.trace)) = <<"nextLoadLevel">>]_vars

C9_Witness ==
  /\ last.op = "set nextLoadLevel"
  /\ nextLoadLevel = MaxLevel
  /\ manualLevel = 0
  /\ ~autoLevelEnabled(Self)

\* C10: capLevelToPlayerSize := false while the flag is true calls stopCapping
\* on the cap-level controller and nextLevelSwitch on the stream controller,
\* once each, resets autoLevelCapping to -1 and leaves the flag false, so that
\* maxAutoLevel is then levelCount - 1 when there are levels.
C10_DisableCapping ==
  [][(last'.op = "set capLevelToPlayerSize" /\ last'.arg = Bool(FALSE)
        /\ config.capLevelToPlayerSize) =>
       /\ Names(Calls(last'.trace)) = <<"stopCapping", "nextLevelSwitch">>
       /\ Calls(last'.trace)[1].who = "capLevelController"
       /\ Calls(last'.trace)[2].who = "streamController"
       /\ autoLevelCapping' = Auto
       /\ ~config'.capLevelToPlayerSize
       /\ (Len(levels') > 0 => maxAutoLevel(Self') = Len(levels') - 1)]_vars

C10_Witness ==
  /\ last.op = "set capLevelToPlayerSize"
  /\ last.arg = Bool(FALSE)
  /\ Names(Calls(last.trace)) = <<"stopCapping", "nextLevelSwitch">>
  /\ \E i \in 1..Len(last.trace) :
       last.trace[i].kind = "set" /\ last.trace[i].what = "_autoLevelCapping"
  /\ Len(levels) = MaxLevels
  /\ maxAutoLevel(Self) = MaxLevels - 1

\* C11: capLevelToPlayerSize := v with !!v equal to the configured flag does
\* nothing: no call, no write, every field as before. Any assignment leaves
\* the flag equal to !!v, so assigning v again right after is such a no-op.
C11_SameValueNoOp ==
  [][last'.op = "set capLevelToPlayerSize" =>
       /\ config'.capLevelToPlayerSize = ToBoolean(last'.arg)
       /\ (ToBoolean(last'.arg) = config.capLevelToPlayerSize) =>
            /\ last'.trace = <<>>
            /\ FieldsUnchanged]_vars

C11_Witness ==
  /\ last.op = "set capLevelToPlayerSize"
  /\ last.arg = 2
  /\ last.trace = <<>>
  /\ config.capLevelToPlayerSize
  /\ autoLevelCapping = 0

\* C12: minAutoLevel is the smallest index whose level has a maxBitrate
\* strictly above config.minAutoBitrate, and 0 when the list is empty or no
\* level qualifies, for the level list as it is now (also after removeLevel).
C12_MinAutoLevel ==
  LET qualifying == {i \in 0..(Len(levels) - 1) : levels[i + 1] > config.minAutoBitrate}
  IN IF qualifying = {}
     THEN minAutoLevel(Self) = 0
     ELSE /\ minAutoLevel(Self) \in qualifying
          /\ \A j \in qualifying : minAutoLevel(Self) <= j

C12_Witness ==
  /\ last.op = "removeLevel"
  /\ config.minAutoBitrate = 1
  /\ levels = <<1, 2>>
  /\ minAutoLevel(Self) = 1

\* C13: maxAutoLevel is levelCount - 1 when autoLevelCapping is -1 (so -1 for
\* an empty list) and autoLevelCapping otherwise, also when the capping value
\* is above levelCount - 1.
C13_MaxAutoLevel ==
  maxAutoLevel(Self) =
    IF autoLevelCapping = Auto THEN Len(levels) - 1 ELSE autoLevelCapping

C13_Witness ==
  /\ last.op = "set autoLevelCapping"
  /\ autoLevelCapping = MaxLevel
  /\ Len(levels) = 1
  /\ maxAutoLevel(Self) = MaxLevel

\* C14: startLevel := L with L # -1 stores the larger of L and minAutoLevel
\* as read at the assignment, so never less than minAutoLevel; startLevel := -1
\* stores -1.
C14_StartLevelClamped ==
  [][last'.op = "set startLevel" =>
       /\ last'.arg = Auto => startLevel' = Auto
       /\ (last'.arg # Auto /\ last'.arg >= minAutoLevel(Self)) => startLevel' = last'.arg
       /\ (last'.arg # Auto /\ last'.arg < minAutoLevel(Self)) =>
            startLevel' = minAutoLevel(Self)
       /\ last'.arg # Auto => startLevel' >= minAutoLevel(Self)]_vars

C14_Witness ==
  /\ last.op = "set startLevel"
  /\ last.arg = 0
  /\ minAutoLevel(Self) = 1
  /\ startLevel = 1

\* The network controllers the configuration asks for, in the order named by
\* the constructor.
NetworkOrder ==
  SelectSeq(<<"levelController", "streamController", "audioTrackController",
              "audioStreamController", "subtitleTrackController",
              "subtitleStreamController">>,
            LAMBDA c : c \in {"levelController", "streamController"} \/ config[c])

\* t is exactly one call of what(arg) on each network controller, in order.
FanOut(t, what, arg) ==
  /\ Len(t) = Len(NetworkOrder)
  /\ \A i \in 1..Len(t) :
       /\ t[i].kind = "call"
       /\ t[i].who = NetworkOrder[i]
       /\ t[i].what = what
       /\ t[i].arg = arg

\* C15: startLoad(p) calls startLoad(p) once on each network controller, in
\* list order, and does nothing else (no call on a core component, no
\* destroy); stopLoad() does the same with stopLoad().
C15_LoadFanOut ==
  /\ last.op = "startLoad" => FanOut(last.trace, "startLoad", last.arg)
  /\ last.op = "stopLoad" => FanOut(last.trace, "stopLoad", NoArg)

C15_Witness ==
  /\ last.op = "startLoad"
  /\ last.arg = 0
  /\ config.audioStreamController /\ ~config.audioTrackController
  /\ config.subtitleTrackController /\ ~config.subtitleStreamController
  /\ config.emeController
  /\ Names(last.trace) = <<"startLoad", "startLoad", "startLoad", "startLoad">>

\* C16 as stated: on parse completion the network controllers get
\* startLoad(config.startPosition) when autoStartLoad is true, and no call at
\* all when autoStartLoad is false.
C16_AutoStartOnly ==
  last.op = "onParsedComplete" =>
    IF config.autoStartLoad
    THEN FanOut(last.trace, "startLoad", config.startPosition)
    ELSE last.trace = <<>>

\* C16 amended: the network controllers get startLoad(config.startPosition)
\* when autoStartLoad is true or the stream controller's forceStartLoad is
\* set, and no call only when both are false.
C16_AutoOrForcedStart ==
  last.op = "onParsedComplete" =>
    IF config.autoStartLoad \/ last.arg = Bool(TRUE)
    THEN FanOut(last.trace, "startLoad", config.startPosition)
    ELSE last.trace = <<>>

C16_Witness ==
  /\ last.op = "onParsedComplete"
  /\ ~config.autoStartLoad
  /\ last.arg = Bool(TRUE)
  /\ config.startPosition = 0
  /\ config.subtitleStreamController
  /\ FanOut(last.trace, "startLoad", 0)

ManualSetters == {"set currentLevel", "set nextLevel", "set loadLevel"}

\* C18: manualLevel is the value last assigned through currentLevel, nextLevel
\* or loadLevel: each such assignment stores its value and no other operation
\* changes it. autoLevelEnabled holds exactly when that value is -1, so once
\* it is false it stays false until one of the three is assigned -1.
C18_ManualLevelFollowsSetters ==
  [][/\ last'.op \in ManualSetters => manualLevel' = last'.arg
     /\ last'.op \notin ManualSetters => manualLevel' = manualLevel
     /\ autoLevelEnabled(Self') <=> (manualLevel' = Auto)
     /\ (~autoLevelEnabled(Self) /\ autoLevelEnabled(Self')) =>
          (last'.op \in ManualSetters /\ last'.arg = Auto)]_vars

C18_Witness ==
  /\ last.op = "set capLevelToPlayerSize"
  /\ manualLevel = MaxLevel
  /\ ~autoLevelEnabled(Self)

\* The positions in trace t of the entries that satisfy p.
Where(t, p(_)) == {i \in 1..Len(t) : p(t[i])}

\* Every position of A comes before every position of B.
AllBefore(A, B) == \A i \in A : \A j \in B : i < j

Is(x, kind, what) == x.kind = kind /\ x.what = what

\* C19: one destroy() publishes DESTROYING, then publishes MEDIA_DETACHING and
\* clears media, then destroys the components (core before network), and only
\* then clears the listeners; so every listener registered before the call is
\* delivered both events, and no component is destroyed before the detach.
C19_DestroyOrder ==
  [][last'.op = "destroy" =>
       LET t == last'.trace
           toldDestroying == emitter["DESTROYING"]
           toldDetaching == emitter["MEDIA_DETACHING"]
           components == coreComponents \o networkControllers
           detaching == Len(toldDestroying) + 2
           cleared == detaching + Len(toldDetaching) + 1
           destroyed == cleared + Len(components)
       IN /\ Len(t) = destroyed + 3
          /\ Is(t[1], "emit", "DESTROYING")
          /\ \A i \in 1..Len(toldDestroying) :
               Is(t[1 + i], "deliver", "DESTROYING") /\ t[1 + i].id = toldDestroying[i]
          /\ Is(t[detaching], "emit", "MEDIA_DETACHING")
          /\ \A i \in 1..Len(toldDetaching) :
               /\ Is(t[detaching + i], "deliver", "MEDIA_DETACHING")
               /\ t[detaching + i].id = toldDetaching[i]
          /\ Is(t[cleared], "set", "_media") /\ t[cleared].arg = Null
          /\ \A k \in 1..Len(components) :
               Is(t[cleared + k], "call", "destroy") /\ t[cleared + k].who = components[k]
          /\ Is(t[destroyed + 1], "set", "url")
          /\ Is(t[destroyed + 2], "set", "_emitter")
          /\ Is(t[destroyed + 3], "set", "_autoLevelCapping")
          /\ media' = Null
  ]_vars

C19_Witness ==
  /\ last.op = "destroy"
  /\ \E i \in 1..Len(last.trace) : \E j \in 1..Len(last.trace) :
       /\ last.trace[i].kind = "deliver" /\ last.trace[i].what = "DESTROYING"
       /\ last.trace[j].kind = "deliver" /\ last.trace[j].what = "MEDIA_DETACHING"
       /\ last.trace[j].seen # Null
  /\ media = Null

\* The position of component c in the construction order, 0 if it is not built.
Built(c) ==
  LET order == ConstructionOrder(config)
      at == {k \in 1..Len(order) : order[k] = c}
  IN IF at = {} THEN 0 ELSE CHOOSE k \in at : TRUE

ToldAt(t, e, c) ==
  Where(t, LAMBDA x : x.kind = "deliver" /\ x.what = e /\ x.id = ComponentId(Built(c)))

RegisteredAt(e, c) ==
  {i \in 1..Len(emitter[e]) : emitter[e][i] = ComponentId(Built(c))}

\* C17: under every configuration the fragment tracker is built before the
\* stream controller, the audio-track controller before the audio-stream
\* controller and the subtitle-track controller before the subtitle-stream
\* controller when both of a pair are configured; so for an event both have
\* subscribed to, the first is registered, and delivered the event, before the
\* second.
C17_PairsInOrder ==
  \A p \in OrderedPairs :
    (p[1] \in ConstructedNames /\ p[2] \in ConstructedNames) =>
      /\ Built(p[1]) > 0
      /\ Built(p[1]) < Built(p[2])
      /\ \A e \in Events :
           /\ AllBefore(RegisteredAt(e, p[1]), RegisteredAt(e, p[2]))
           /\ AllBefore(ToldAt(last.trace, e, p[1]), ToldAt(last.trace, e, p[2]))

C17_Witness ==
  /\ last.op = "attachMedia"
  /\ config.audioTrackController /\ config.audioStreamController
  /\ ~config.subtitleTrackController /\ config.subtitleStreamController
  /\ \A c \in {"fragmentTracker", "streamController",
                "audioTrackController", "audioStreamController"} :
       ToldAt(last.trace, "MEDIA_ATTACHING", c) # {}

Threw(t) == Where(t, LAMBDA x : x.kind = "throw") # {}

\* C20: a destroy() call returns after finitely many steps even when a
\* listener registered for DESTROYING or MEDIA_DETACHING calls destroy() again
\* during the outer call's dispatch: no destroy() ends by exhausting the stack.
C20_DestroyReturns == last.op = "destroy" => ~Threw(last.trace)

\* A destroy() that returned although a listener called destroy() from inside it.
C20_NestedReturn ==
  /\ last.op = "destroy"
  /\ Idle
  /\ ~Threw(last.trace)
  /\ Cardinality(Where(last.trace,
                        LAMBDA x : x.kind = "emit" /\ x.what = "DESTROYING")) > 1

\* The emit that the delivery at position j of trace t belongs to when emits
\* do not nest: the last emit of the same event before it.
EmitOf(t, j) ==
  CHOOSE i \in 1..j :
    /\ Is(t[i], "emit", t[j].what)
    /\ \A k \in (i + 1)..j : ~Is(t[k], "emit", t[j].what)

\* C21: what listeners are told agrees with the stored media reference while
\* they run: a MEDIA_ATTACHING listener finds media equal to the payload, and
\* a MEDIA_DETACHING listener finds media as it was when the event was
\* emitted, since it is cleared only after all of them have run.
C21_ListenersSeeMedia ==
  \A j \in 1..Len(last.trace) :
    LET x == last.trace[j]
    IN /\ Is(x, "deliver", "MEDIA_ATTACHING") => x.seen = x.arg
       /\ Is(x, "deliver", "MEDIA_DETACHING") =>
            x.seen = last.trace[EmitOf(last.trace, j)].seen

\* A destroy() of an instance with media attached that returned, with
\* MEDIA_DETACHING delivered while the media was still stored.
C21_DetachingSeen ==
  /\ last.op = "destroy"
  /\ Idle
  /\ \E j \in 1..Len(last.trace) :
       Is(last.trace[j], "deliver", "MEDIA_DETACHING") /\ last.trace[j].seen # Null

====
